---- MODULE Spec2Model ----
(***************************************************************************)
(* Model of utils/backend/scrapers/linkedin_scraper.py.                    *)
(*                                                                         *)
(* Python strings are sequences of one-character strings; an HTML tag is   *)
(* one element of such a sequence ("<br>", "<li>", ...).  Python's None    *)
(* and a key that is missing from a dict are the one-element sequences     *)
(* None and Missing, whose element is no character of any modelled string. *)
(***************************************************************************)
EXTENDS Integers, Sequences, FiniteSets, TLC

VARIABLES
    pc,                     \* position of the function under execution
    job_url,                \* extract_linkedin_job_id: its argument
    match_id,               \* extract_linkedin_job_id: its return value
    html_content,           \* clean_html_text: its argument
    text,                   \* clean_html_text: its return value
    text2,                  \* clean_html_text applied to its own return value
    job_id,                 \* fetch_linkedin_description: its argument
    response,               \* fetch_linkedin_description: what requests.get did
    description,            \* fetch_linkedin_description: its return value
    jobs,                   \* fetch_descriptions_for_jobs: the caller's list
    jobs0,                  \* the list as it was when the call was made
    progress_callback,      \* TRUE iff a callback was passed
    linkedin_jobs_to_fetch, \* the (job_index, job_id) pairs selected
    idx,                    \* loop index of the fetch loop (0-based)
    fetched_count,
    failed_count,
    log                     \* calls made so far: progress, fetch, sleep

vars == << pc, job_url, match_id, html_content, text, text2, job_id, response,
           description, jobs, jobs0, progress_callback, linkedin_jobs_to_fetch,
           idx, fetched_count, failed_count, log >>

-----------------------------------------------------------------------------
(* Bounds of the model *)

MaxUrlFrags == 4
MaxTextLen == 4
MaxBodyElems == 2
MaxJobs == 3

-----------------------------------------------------------------------------
(* Python values *)

None == << "<None>" >>
Missing == << "<Missing>" >>
Raised == << "<Raised>" >>
Unset == << "<Unset>" >>

\* the value of `response` while no request has been made
NoResponse ==
    [ kind |-> "NoRequest", status_code |-> 0, body |-> << >>,
      parse_raises |-> FALSE ]

\* bool(v) is False for None and for the empty string
Falsy(v) == v = None \/ v = << >>

Whitespace == { " ", "\n", "\t" }
Digits == { "0", "1", "2", "3", "4", "5", "6", "7", "8", "9" }

RECURSIVE Concat(_)
Concat(ss) == IF ss = << >> THEN << >> ELSE Head(ss) \o Concat(Tail(ss))

RECURSIVE lstrip(_)
lstrip(s) ==
    IF s = << >> THEN s
    ELSE IF Head(s) \in Whitespace THEN lstrip(Tail(s)) ELSE s

RECURSIVE rstrip(_)
rstrip(s) ==
    IF s = << >> THEN s
    ELSE IF s[Len(s)] \in Whitespace THEN rstrip(SubSeq(s, 1, Len(s) - 1)) ELSE s

\* str.strip()
strip(s) == rstrip(lstrip(s))

-----------------------------------------------------------------------------
(* extract_linkedin_job_id *)

\* the literal part of each pattern; every pattern ends in the group (\d+)
patterns_swapped ==
    << << "c", "u", "r", "r", "e", "n", "t", "J", "o", "b", "I", "d", "=" >>,
       << "/", "j", "o", "b", "s", "/" >>,
       << "/", "j", "o", "b", "s", "/", "v", "i", "e", "w", "/" >>,
       << "j", "o", "b", "I", "d", "=" >> >>

patterns ==
    << << "/", "j", "o", "b", "s", "/", "v", "i", "e", "w", "/" >>,
       << "/", "j", "o", "b", "s", "/" >>,
       << "c", "u", "r", "r", "e", "n", "t", "J", "o", "b", "I", "d", "=" >>,
       << "j", "o", "b", "I", "d", "=" >> >>

\* the pattern lit(\d+) matches s at position i
MatchAt(lit, s, i) ==
    /\ i + Len(lit) <= Len(s)
    /\ SubSeq(s, i, i + Len(lit) - 1) = lit
    /\ s[i + Len(lit)] \in Digits

\* the greedy group (\d+) starting at position j
RECURSIVE DigitRun(_, _)
DigitRun(s, j) ==
    IF j > Len(s) \/ s[j] \notin Digits THEN << >>
    ELSE << s[j] >> \o DigitRun(s, j + 1)

\* re.search(lit(\d+), s): group(1) of the leftmost match, or None
re_search(lit, s) ==
    IF \E i \in 1..Len(s) : MatchAt(lit, s, i)
    THEN LET i == CHOOSE k \in 1..Len(s) :
                    /\ MatchAt(lit, s, k)
                    /\ \A j \in 1..(k - 1) : ~MatchAt(lit, s, j)
         IN  DigitRun(s, i + Len(lit))
    ELSE None

RECURSIVE FirstMatch(_, _)
FirstMatch(url, k) ==
    IF k > Len(patterns) THEN None
    ELSE LET m == re_search(patterns[k], url)
         IN  IF m # None THEN m ELSE FirstMatch(url, k + 1)

extract_linkedin_job_id(url) ==
    IF Falsy(url) THEN None ELSE FirstMatch(url, 1)

\* the pieces the modelled URLs are put together from
UrlFragments ==
    { patterns[1], patterns[2], patterns[3], patterns[4],
      << "1" >>, << "2" >>, << "&" >> }

UrlFragmentSeqs == UNION { [1..n -> UrlFragments] : n \in 0..MaxUrlFrags }

Urls == { Concat(fs) : fs \in UrlFragmentSeqs }

-----------------------------------------------------------------------------
(* Specification of extract_linkedin_job_id alone *)

InitExtract ==
    /\ pc = "extract"
    /\ job_url \in Urls
    /\ match_id = Unset
    /\ html_content = Unset /\ text = Unset /\ text2 = Unset
    /\ job_id = Unset /\ response = NoResponse /\ description = Unset
    /\ jobs = << >> /\ jobs0 = << >> /\ progress_callback = FALSE
    /\ linkedin_jobs_to_fetch = << >> /\ idx = 0
    /\ fetched_count = 0 /\ failed_count = 0 /\ log = << >>

Extract ==
    /\ pc = "extract"
    /\ match_id' = extract_linkedin_job_id(job_url)
    /\ pc' = "extracted"
    /\ UNCHANGED << job_url, html_content, text, text2, job_id, response,
                    description, jobs, jobs0, progress_callback,
                    linkedin_jobs_to_fetch, idx, fetched_count, failed_count,
                    log >>

NextExtract == Extract

SpecExtract == InitExtract /\ [][NextExtract]_vars

DocumentedOrder ==
    << << "/", "j", "o", "b", "s", "/", "v", "i", "e", "w", "/" >>,
       << "/", "j", "o", "b", "s", "/" >>,
       << "c", "u", "r", "r", "e", "n", "t", "J", "o", "b", "I", "d", "=" >>,
       << "j", "o", "b", "I", "d", "=" >> >>

\* d is a capture of lit(\d+) in url: lit, then the digits d, then no digit
IsCapture(lit, url, d) ==
    \E i \in 1..Len(url) :
        /\ i + Len(lit) + Len(d) - 1 <= Len(url)
        /\ Len(d) >= 1
        /\ SubSeq(url, i, i + Len(lit) - 1) = lit
        /\ SubSeq(url, i + Len(lit), i + Len(lit) + Len(d) - 1) = d
        /\ \A j \in 1..Len(d) : d[j] \in Digits
        /\ (i + Len(lit) + Len(d) <= Len(url)
               => url[i + Len(lit) + Len(d)] \notin Digits)

HasCapture(lit, url) ==
    \E i \in 1..Len(url) :
        /\ i + Len(lit) <= Len(url)
        /\ SubSeq(url, i, i + Len(lit) - 1) = lit
        /\ url[i + Len(lit)] \in Digits

\* C8: the result is a capture of the first pattern, in the documented order
\* /jobs/view/, /jobs/, currentJobId=, jobId=, that matches anywhere in the
\* URL; it is None for the empty URL and for a URL no pattern matches.
C8_FirstPatternWins ==
    pc = "extracted" =>
        LET hits == { k \in 1..4 : HasCapture(DocumentedOrder[k], job_url) }
        IN  IF job_url = << >> \/ hits = {}
            THEN match_id = None
            ELSE LET k == CHOOSE h \in hits : \A g \in hits : h <= g
                 IN  /\ match_id # None
                     /\ IsCapture(DocumentedOrder[k], job_url, match_id)

\* a URL matching pattern 3 before (in the URL) pattern 1: pattern 1 wins
C8_Witness ==
    /\ pc = "extracted"
    /\ job_url = patterns[3] \o << "2" >> \o patterns[1] \o << "1" >>
    /\ match_id = << "1" >>

-----------------------------------------------------------------------------
(* clean_html_text *)

Tags == { "<br>", "<li>", "</li>", "<p>", "</p>", "<div>", "</div>" }

\* for br in soup.find_all('br'): br.replace_with('\n')
RECURSIVE replace_br(_)
replace_br(doc) ==
    IF doc = << >> THEN << >>
    ELSE (IF Head(doc) = "<br>" THEN << "\n" >> ELSE << Head(doc) >>)
             \o replace_br(Tail(doc))

\* the bullet character U+2022, one character of the text
Bullet == "(U+2022)"

\* for li in soup.find_all('li'): li.insert_before(Bullet + ' ');
\*                               li.insert_after('\n')
RECURSIVE bullet_li(_)
bullet_li(doc) ==
    IF doc = << >> THEN << >>
    ELSE (CASE Head(doc) = "<li>" -> << Bullet, " ", "<li>" >>
            [] Head(doc) = "</li>" -> << "</li>", "\n" >>
            [] OTHER -> << Head(doc) >>)
             \o bullet_li(Tail(doc))

\* for p in soup.find_all('p'): p.insert_after('\n')
RECURSIVE newline_p(_)
newline_p(doc) ==
    IF doc = << >> THEN << >>
    ELSE (IF Head(doc) = "</p>" THEN << "</p>", "\n" >> ELSE << Head(doc) >>)
             \o newline_p(Tail(doc))

\* soup.get_text(): the text nodes in document order
get_text(doc) == SelectSeq(doc, LAMBDA t : t \notin Tags)

\* str.split('\n')
RECURSIVE split_newline(_)
split_newline(s) ==
    IF \E i \in 1..Len(s) : s[i] = "\n"
    THEN LET i == CHOOSE k \in 1..Len(s) :
                    s[k] = "\n" /\ \A j \in 1..(k - 1) : s[j] # "\n"
         IN  << SubSeq(s, 1, i - 1) >> \o split_newline(SubSeq(s, i + 1, Len(s)))
    ELSE << s >>

\* the longest prefix of s without whitespace
RECURSIVE Word(_)
Word(s) ==
    IF s = << >> \/ Head(s) \in Whitespace THEN << >>
    ELSE << Head(s) >> \o Word(Tail(s))

\* str.split(): the maximal whitespace-free pieces of s
RECURSIVE split_whitespace(_)
split_whitespace(s) ==
    LET r == lstrip(s)
    IN  IF r = << >> THEN << >>
        ELSE LET w == Word(r)
             IN  << w >> \o split_whitespace(SubSeq(r, Len(w) + 1, Len(r)))

\* sep.join(parts)
RECURSIVE join(_, _)
join(sep, parts) ==
    IF parts = << >> THEN << >>
    ELSE IF Len(parts) = 1 THEN parts[1]
    ELSE parts[1] \o sep \o join(sep, Tail(parts))

collapse_line_identity(line) == line

\* ' '.join(line.split())
collapse_line(line) == join(<< " " >>, split_whitespace(line))

RECURSIVE cleaned_lines(_)
cleaned_lines(lines) ==
    IF lines = << >> THEN << >>
    ELSE << collapse_line(Head(lines)) >> \o cleaned_lines(Tail(lines))

clean_html_text(content) ==
    IF Falsy(content) THEN << >>
    ELSE LET soup == newline_p(bullet_li(replace_br(content)))
             lines == split_newline(get_text(soup))
             kept == SelectSeq(cleaned_lines(lines), LAMBDA l : l # << >>)
         IN  strip(join(<< "\n" >>, kept))

\* every start tag is closed by its end tag, in order
RECURSIVE WellNestedFrom(_, _)
WellNestedFrom(doc, open) ==
    IF doc = << >> THEN open = << >>
    ELSE LET t == Head(doc)
         IN  CASE t \in { "<li>", "<p>", "<div>" } ->
                      WellNestedFrom(Tail(doc), << t >> \o open)
               [] t = "</li>" ->
                      open # << >> /\ Head(open) = "<li>"
                          /\ WellNestedFrom(Tail(doc), Tail(open))
               [] t = "</p>" ->
                      open # << >> /\ Head(open) = "<p>"
                          /\ WellNestedFrom(Tail(doc), Tail(open))
               [] t = "</div>" ->
                      open # << >> /\ Head(open) = "<div>"
                          /\ WellNestedFrom(Tail(doc), Tail(open))
               [] OTHER -> WellNestedFrom(Tail(doc), open)

WellNested(doc) == WellNestedFrom(doc, << >>)

MarkupAlphabet == { "a", " ", "\n", "\t", "<br>", "<li>", "</li>", "<p>", "</p>" }

Markups ==
    { d \in UNION { [1..n -> MarkupAlphabet] : n \in 0..MaxTextLen } :
          WellNested(d) }

-----------------------------------------------------------------------------
(* Specification of clean_html_text alone *)

InitClean ==
    /\ pc = "clean"
    /\ html_content \in Markups
    /\ text = Unset /\ text2 = Unset
    /\ job_url = Unset /\ match_id = Unset
    /\ job_id = Unset /\ response = NoResponse /\ description = Unset
    /\ jobs = << >> /\ jobs0 = << >> /\ progress_callback = FALSE
    /\ linkedin_jobs_to_fetch = << >> /\ idx = 0
    /\ fetched_count = 0 /\ failed_count = 0 /\ log = << >>

Clean ==
    /\ pc = "clean"
    /\ text' = clean_html_text(html_content)
    /\ pc' = "cleaned"
    /\ UNCHANGED << job_url, match_id, html_content, text2, job_id, response,
                    description, jobs, jobs0, progress_callback,
                    linkedin_jobs_to_fetch, idx, fetched_count, failed_count,
                    log >>

\* the caller normalizes the output once more
CleanAgain ==
    /\ pc = "cleaned"
    /\ text2' = clean_html_text(text)
    /\ pc' = "recleaned"
    /\ UNCHANGED << job_url, match_id, html_content, text, job_id, response,
                    description, jobs, jobs0, progress_callback,
                    linkedin_jobs_to_fetch, idx, fetched_count, failed_count,
                    log >>

NextClean == Clean \/ CleanAgain

SpecClean == InitClean /\ [][NextClean]_vars

TagFree(s) == \A i \in 1..Len(s) : s[i] \notin Tags

\* the only whitespace of s is a lone space or a lone newline between two
\* characters that are not whitespace
SinglySpaced(s) ==
    \A i \in 1..Len(s) :
        s[i] \in Whitespace =>
            /\ s[i] \in { " ", "\n" }
            /\ 1 < i /\ i < Len(s)
            /\ s[i - 1] \notin Whitespace
            /\ s[i + 1] \notin Whitespace

\* C9 as stated: for tag-free text the result is the text trimmed, nothing
\* else changed.
C9_Original_TrimOnly ==
    (pc = "cleaned" /\ TagFree(html_content)) => text = strip(html_content)

\* C9 amended: for tag-free text the result is the trimmed text exactly when
\* the trimmed text is singly spaced (otherwise whitespace inside it has been
\* collapsed or blank lines dropped); empty input gives the empty string; and
\* normalizing the output again returns it unchanged.
C9_TrimWhenSinglySpaced ==
    /\ (pc = "cleaned" /\ TagFree(html_content)) =>
           /\ (text = strip(html_content) <=> SinglySpaced(strip(html_content)))
           /\ SinglySpaced(text)
           /\ (html_content = << >> => text = << >>)
    /\ (pc = "recleaned" /\ TagFree(html_content)) =>
           (TagFree(text) /\ text2 = text)

\* a singly spaced text with surrounding whitespace came back trimmed, and
\* normalizing it again changed nothing
C9_Witness ==
    /\ pc = "recleaned"
    /\ html_content = << " ", "a", " ", "a" >>
    /\ text = << "a", " ", "a" >>
    /\ text2 = text

-----------------------------------------------------------------------------
(* fetch_linkedin_description *)

\* what requests.get did: it raised requests.Timeout, another
\* requests.RequestException or some other Exception, or it returned a response
\* with a status code and a body; parse_raises says that BeautifulSoup or the
\* normalizer raises on this body.  A body is the sequence of its elements
\* that carry a class, in document order, each with its inner markup.
PrimaryClass == "show-more-less-html__markup"

fallback_selectors == << "description__text", "job-description", "description" >>

\* soup.find(class_=cls): the position of the first element of that class, 0
\* when there is none
find(body, cls) ==
    IF \E i \in 1..Len(body) : body[i].class = cls
    THEN CHOOSE i \in 1..Len(body) :
             /\ body[i].class = cls
             /\ \A j \in 1..(i - 1) : body[j].class # cls
    ELSE 0

\* str(element): the element's outer markup
OuterMarkup(el) == << "<div>" >> \o el.inner \o << "</div>" >>

RECURSIVE try_fallbacks(_, _)
try_fallbacks(body, k) ==
    IF k > Len(fallback_selectors) THEN None
    ELSE LET i == find(body, fallback_selectors[k])
         IN  IF i # 0 THEN clean_html_text(OuterMarkup(body[i]))
             ELSE try_fallbacks(body, k + 1)

find_description_fallback_first(body) ==
    LET r == try_fallbacks(body, 1)
        i == find(body, PrimaryClass)
    IN  IF r # None THEN r
        ELSE IF i # 0 THEN clean_html_text(OuterMarkup(body[i]))
        ELSE None

\* lines 159-177: the primary container, else the first fallback selector
\* that finds an element, else None
find_description(body) ==
    LET i == find(body, PrimaryClass)
    IN  IF i # 0 THEN clean_html_text(OuterMarkup(body[i]))
        ELSE try_fallbacks(body, 1)

TimeoutError == << "<requests.Timeout>" >>
RequestError == << "<requests.RequestException>" >>
OtherError == << "<Exception>" >>

\* the body of the try statement: the value it returns, or the exception
\* that leaves it
try_body(resp) ==
    CASE resp.kind = "Timeout" -> TimeoutError
      [] resp.kind = "RequestException" -> RequestError
      [] resp.kind = "Exception" -> OtherError
      [] OTHER ->
           IF resp.status_code = 429 THEN None
           ELSE IF resp.status_code = 404 THEN None
           ELSE IF resp.status_code # 200 THEN None
           ELSE IF resp.parse_raises THEN OtherError
           ELSE find_description(resp.body)

fetch_linkedin_description_uncaught(id, resp) ==
    IF Falsy(id) THEN None
    ELSE LET r == try_body(resp)
         IN  IF r = TimeoutError THEN None
             ELSE IF r = RequestError THEN None
             ELSE IF r = OtherError THEN Raised
             ELSE r

fetch_linkedin_description(id, resp) ==
    IF Falsy(id) THEN None
    ELSE LET r == try_body(resp)
         IN  IF r = TimeoutError THEN None
             ELSE IF r = RequestError THEN None
             ELSE IF r = OtherError THEN None
             ELSE r

Statuses == { 200, 201, 204, 301, 404, 429, 500 }

Classes == { PrimaryClass, "description__text", "job-description",
             "description", "other" }

Inners == { << >>, << " " >>, << "a" >>, << "<li>", "a", "</li>" >> }

Elements == [ class : Classes, inner : Inners ]

Bodies == UNION { [1..n -> Elements] : n \in 0..MaxBodyElems }

Responses ==
    { [ kind |-> k, status_code |-> 0, body |-> << >>, parse_raises |-> FALSE ] :
          k \in { "Timeout", "RequestException", "Exception" } }
    \cup [ kind : { "Response" }, status_code : Statuses, body : Bodies,
           parse_raises : { FALSE } ]
    \cup [ kind : { "Response" }, status_code : { 200 }, body : Bodies,
           parse_raises : { TRUE } ]

-----------------------------------------------------------------------------
(* Specification of fetch_linkedin_description alone *)

InitFetch ==
    /\ pc = "fetch"
    /\ \/ job_id \in { << >>, None } /\ response = NoResponse
       \/ job_id = << "1" >> /\ response \in Responses
    /\ description = Unset
    /\ job_url = Unset /\ match_id = Unset
    /\ html_content = Unset /\ text = Unset /\ text2 = Unset
    /\ jobs = << >> /\ jobs0 = << >> /\ progress_callback = FALSE
    /\ linkedin_jobs_to_fetch = << >> /\ idx = 0
    /\ fetched_count = 0 /\ failed_count = 0 /\ log = << >>

FetchOne ==
    /\ pc = "fetch"
    /\ description' = fetch_linkedin_description(job_id, response)
    /\ pc' = "fetched"
    /\ UNCHANGED << job_url, match_id, html_content, text, text2, job_id,
                    response, jobs, jobs0, progress_callback,
                    linkedin_jobs_to_fetch, idx, fetched_count, failed_count,
                    log >>

NextFetch == FetchOne

SpecFetch == InitFetch /\ [][NextFetch]_vars

HasPrimary(body) == \E i \in 1..Len(body) : body[i].class = PrimaryClass

\* the normalizer's output for the first element of the primary class
IsPrimaryText(body, d) ==
    \E i \in 1..Len(body) :
        /\ body[i].class = PrimaryClass
        /\ \A j \in 1..(i - 1) : body[j].class # PrimaryClass
        /\ d = clean_html_text(<< "<div>" >> \o body[i].inner \o << "</div>" >>)

\* C5 as stated: on every 2xx status with a primary container in the body,
\* the result is the normalizer's output for that container.
C5_Original_Every2xx ==
    ( /\ pc = "fetched"
      /\ response.kind = "Response"
      /\ response.status_code \in 200..299
      /\ ~response.parse_raises
      /\ HasPrimary(response.body) )
        => IsPrimaryText(response.body, description)

\* C5 amended: on status 200, and on no other status, the body is parsed and,
\* when it holds a primary container (and parsing does not raise), the result
\* is the normalizer's output for that container; every other status,
\* the other 2xx included, gives no result.
C5_Only200Parsed ==
    (pc = "fetched" /\ response.kind = "Response") =>
        /\ ( /\ response.status_code = 200
             /\ ~response.parse_raises
             /\ HasPrimary(response.body) )
               => IsPrimaryText(response.body, description)
        /\ response.status_code # 200 => description = None

\* status 200, a fallback container before the primary one: the primary wins
C5_Witness ==
    /\ pc = "fetched"
    /\ response.kind = "Response"
    /\ response.status_code = 200
    /\ Len(response.body) = 2
    /\ response.body[1] = [ class |-> "description", inner |-> << "a" >> ]
    /\ response.body[2] =
           [ class |-> PrimaryClass, inner |-> << "<li>", "a", "</li>" >> ]
    /\ description = << Bullet, " ", "a" >>

\* C6: the fetch never raises, and a 429, a 404, any other non-success
\* status, a timeout, a transport error and an unexpected exception in the
\* request or in parsing all give the one value None.
C6_FailuresGiveNone ==
    pc = "fetched" =>
        /\ description # Raised
        /\ ( \/ response.kind \in { "Timeout", "RequestException", "Exception" }
             \/ response.parse_raises
             \/ ( /\ response.kind = "Response"
                  /\ response.status_code \notin 200..299 ) )
               => description = None

\* an unexpected exception while parsing a 200 response came back as None
C6_Witness ==
    /\ pc = "fetched"
    /\ response.kind = "Response"
    /\ response.status_code = 200
    /\ response.parse_raises
    /\ HasPrimary(response.body)
    /\ description = None

-----------------------------------------------------------------------------
(* fetch_descriptions_for_jobs *)

\* dict.get(key, default)
get(job, key, default) == IF job[key] = Missing THEN default ELSE job[key]

\* str(v)
str(v) == IF v = None THEN << "N", "o", "n", "e" >> ELSE v

LowerChar(c) ==
    CASE c = "L" -> "l" [] c = "I" -> "i" [] c = "N" -> "n" [] c = "K" -> "k"
      [] c = "E" -> "e" [] c = "D" -> "d" [] OTHER -> c

\* str.lower()
lower(s) == [ i \in 1..Len(s) |-> LowerChar(s[i]) ]

\* a or b
Or(a, b) == IF Falsy(a) THEN b ELSE a

linkedin == << "l", "i", "n", "k", "e", "d", "i", "n" >>

\* line 210-211
site_is_linkedin(job) == lower(str(get(job, "site", << >>))) = linkedin

lacks_description_empty_only(job) == Falsy(get(job, "description", << >>))

\* lines 212-213
lacks_description(job) ==
    LET d == get(job, "description", << >>)
    IN  Falsy(d) \/ strip(d) = << >>

\* lines 214-215
job_id_of(job) ==
    extract_linkedin_job_id(
        Or(get(job, "link", << >>), get(job, "job_url", << >>)))

\* lines 208-217: the (job_index, job_id) pairs, job_index counted from 0
RECURSIVE select_from(_, _)
select_from(js, i) ==
    IF i >= Len(js) THEN << >>
    ELSE LET job == js[i + 1]
         IN  (IF site_is_linkedin(job) /\ lacks_description(job)
                    /\ ~Falsy(job_id_of(job))
              THEN << << i, job_id_of(job) >> >>
              ELSE << >>)
                 \o select_from(js, i + 1)

progress_args_zero_based(i, n) == << i, n >>

\* line 232: the arguments given to the callback
progress_args(i, n) == << i + 1, n >>

after_callback_propagating(raises) == IF raises THEN "raised" ELSE "fetch"

\* lines 231-234: an exception of the callback is caught and logged
after_callback(raises) == "fetch"

has_result_not_none(d) == d # None

\* line 239: if description
has_result(d) == ~Falsy(d)

written_index_loop_position(i) == i

\* line 240: the record written is the one the pair names
written_index(i) == linkedin_jobs_to_fetch[i + 1][1]

should_sleep_always(i, n) == TRUE

\* line 247
should_sleep(i, n) == i < n - 1

\* the site names, descriptions and URLs the modelled records are made of
LinkedInMixed == << "L", "i", "n", "k", "e", "d", "I", "n" >>

JobPool ==
    { \* targeted: description None, empty link, id in job_url
      [ site |-> linkedin, description |-> None, link |-> << >>,
        job_url |-> patterns[1] \o << "1" >> ],
      \* targeted: mixed-case site, whitespace-only description, id in link
      [ site |-> LinkedInMixed, description |-> << " ", "\n" >>,
        link |-> patterns[3] \o << "2" >>, job_url |-> Missing ],
      \* has a description
      [ site |-> linkedin, description |-> << " ", "a" >>,
        link |-> patterns[1] \o << "1" >>, job_url |-> Missing ],
      \* a link without an id hides the job_url
      [ site |-> linkedin, description |-> Missing, link |-> << "&" >>,
        job_url |-> patterns[1] \o << "1" >> ],
      \* every field but the site holds None
      [ site |-> linkedin, description |-> None, link |-> None,
        job_url |-> None ],
      \* no site: None, the other keys missing but for a job_url with an id
      [ site |-> None, description |-> Missing, link |-> Missing,
        job_url |-> patterns[1] \o << "2" >> ] }

JobLists == UNION { [1..n -> JobPool] : n \in 0..MaxJobs }

\* what the network answers to one request of the batch
BatchResponses ==
    { [ kind |-> "Timeout", status_code |-> 0, body |-> << >>,
        parse_raises |-> FALSE ],
      [ kind |-> "Response", status_code |-> 429, body |-> << >>,
        parse_raises |-> FALSE ],
      [ kind |-> "Response", status_code |-> 404, body |-> << >>,
        parse_raises |-> FALSE ],
      [ kind |-> "Response", status_code |-> 200, body |-> << >>,
        parse_raises |-> FALSE ],
      [ kind |-> "Response", status_code |-> 200,
        body |-> << [ class |-> PrimaryClass, inner |-> << "a" >> ] >>,
        parse_raises |-> TRUE ],
      [ kind |-> "Response", status_code |-> 200,
        body |-> << [ class |-> PrimaryClass, inner |-> << " " >> ] >>,
        parse_raises |-> FALSE ],
      [ kind |-> "Response", status_code |-> 200,
        body |-> << [ class |-> PrimaryClass, inner |-> << "a" >> ] >>,
        parse_raises |-> FALSE ] }

Init ==
    /\ pc = "start"
    /\ jobs \in JobLists
    /\ jobs0 = jobs
    /\ progress_callback \in BOOLEAN
    /\ linkedin_jobs_to_fetch = << >>
    /\ idx = 0
    /\ fetched_count = 0
    /\ failed_count = 0
    /\ log = << >>
    /\ job_url = Unset /\ match_id = Unset
    /\ html_content = Unset /\ text = Unset /\ text2 = Unset
    /\ job_id = Unset /\ response = NoResponse /\ description = Unset

others == << job_url, match_id, html_content, text, text2, job_id, response >>

\* lines 208-217
Scan ==
    /\ pc = "start"
    /\ linkedin_jobs_to_fetch' = select_from(jobs, 0)
    /\ pc' = IF linkedin_jobs_to_fetch' = << >> THEN "return_early"
             ELSE "progress"
    /\ UNCHANGED << jobs, jobs0, progress_callback, idx, fetched_count,
                    failed_count, log, description, others >>

\* lines 219-221
ReturnEarly ==
    /\ pc = "return_early"
    /\ pc' = "returned"
    /\ UNCHANGED << jobs, jobs0, progress_callback, linkedin_jobs_to_fetch,
                    idx, fetched_count, failed_count, log, description,
                    others >>

\* lines 230-234, a callback was given: it returns or raises an Exception
ReportProgress ==
    /\ pc = "progress"
    /\ progress_callback
    /\ \E raises \in BOOLEAN :
          /\ log' = Append(log,
                 [ op |-> "progress",
                   args |-> progress_args(idx, Len(linkedin_jobs_to_fetch)),
                   raised |-> raises ])
          /\ pc' = after_callback(raises)
    /\ UNCHANGED << jobs, jobs0, progress_callback, linkedin_jobs_to_fetch,
                    idx, fetched_count, failed_count, description, others >>

\* line 230, no callback was given
SkipProgress ==
    /\ pc = "progress"
    /\ ~progress_callback
    /\ pc' = "fetch"
    /\ UNCHANGED << jobs, jobs0, progress_callback, linkedin_jobs_to_fetch,
                    idx, fetched_count, failed_count, log, description,
                    others >>

\* lines 237-244
FetchDescription ==
    /\ pc = "fetch"
    /\ \E resp \in BatchResponses :
          LET id == linkedin_jobs_to_fetch[idx + 1][2]
              d == fetch_linkedin_description(id, resp)
          IN  /\ description' = d
              /\ log' = Append(log,
                     [ op |-> "fetch", item |-> idx, job_id |-> id,
                       result |-> d ])
              /\ IF d = Raised
                 THEN /\ pc' = "raised"
                      /\ UNCHANGED << jobs, fetched_count, failed_count >>
                 ELSE /\ pc' = "delay"
                      /\ IF has_result(d)
                         THEN /\ jobs' = [ jobs EXCEPT
                                    ![written_index(idx) + 1].description = d ]
                              /\ fetched_count' = fetched_count + 1
                              /\ UNCHANGED failed_count
                         ELSE /\ failed_count' = failed_count + 1
                              /\ UNCHANGED << jobs, fetched_count >>
    /\ UNCHANGED << jobs0, progress_callback, linkedin_jobs_to_fetch, idx,
                    others >>

\* lines 247-248 and the loop's step: sleep, then the next item if any
Delay ==
    /\ pc = "delay"
    /\ should_sleep(idx, Len(linkedin_jobs_to_fetch))
    /\ log' = Append(log, [ op |-> "sleep" ])
    /\ idx' = idx + 1
    /\ pc' = IF idx + 1 < Len(linkedin_jobs_to_fetch) THEN "progress"
             ELSE "return"
    /\ UNCHANGED << jobs, jobs0, progress_callback, linkedin_jobs_to_fetch,
                    fetched_count, failed_count, description, others >>

\* line 247 false: no sleep, then the next item if any
NoDelay ==
    /\ pc = "delay"
    /\ ~should_sleep(idx, Len(linkedin_jobs_to_fetch))
    /\ idx' = idx + 1
    /\ pc' = IF idx + 1 < Len(linkedin_jobs_to_fetch) THEN "progress"
             ELSE "return"
    /\ UNCHANGED << jobs, jobs0, progress_callback, linkedin_jobs_to_fetch,
                    fetched_count, failed_count, log, description, others >>

\* lines 250-255
Return ==
    /\ pc = "return"
    /\ pc' = "returned"
    /\ UNCHANGED << jobs, jobs0, progress_callback, linkedin_jobs_to_fetch,
                    idx, fetched_count, failed_count, log, description,
                    others >>

Next ==
    \/ Scan
    \/ ReturnEarly
    \/ ReportProgress
    \/ SkipProgress
    \/ FetchDescription
    \/ Delay
    \/ NoDelay
    \/ Return

Spec == Init /\ [][Next]_vars

\* the function is one sequential thread: it always takes its next step
FairSpec == Init /\ [][Next]_vars /\ WF_vars(Next)

-----------------------------------------------------------------------------
(* The targeting conditions, as the specification words them *)

Absent(v) == v = None \/ v = Missing

\* the site names the target source, whatever the case of its letters
SiteIsTarget(job) == ~Absent(job.site) /\ lower(job.site) = linkedin

\* the existing description is empty or whitespace-only
DescriptionBlank(job) ==
    \/ Absent(job.description)
    \/ \A i \in 1..Len(job.description) : job.description[i] \in Whitespace

\* the URL field: link when it holds a non-empty value, job_url otherwise
UrlField(job) ==
    IF Absent(job.link) \/ job.link = << >> THEN job.job_url ELSE job.link

HasIdentifier(job) ==
    /\ ~Absent(UrlField(job))
    /\ extract_linkedin_job_id(UrlField(job)) # None

Targeted(job) == SiteIsTarget(job) /\ DescriptionBlank(job) /\ HasIdentifier(job)

\* Targeted, and the identifier of the URL field, tabulated for the records
\* the modelled lists are made of
TargetedRecord == [ j \in JobPool |-> Targeted(j) ]

IdentifierOf == [ j \in JobPool |-> extract_linkedin_job_id(UrlField(j)) ]

\* the positions (from 1) of the targeted records of the input, in order
TargetedPositions ==
    SelectSeq([ i \in 1..Len(jobs0) |-> i ],
              LAMBDA i : TargetedRecord[jobs0[i]])

NumTargeted == Len(TargetedPositions)

Calls(ops) == SelectSeq(log, LAMBDA e : e.op \in ops)

\* C1: the fetcher is called for exactly the targeted records, once each, in
\* the records' order, with the identifier of the record's URL field,
\* whatever the earlier fetches returned; never for another record.
C1_FetchesExactlyTargeted ==
    LET f == Calls({ "fetch" })
        tp == TargetedPositions
    IN  /\ Len(f) <= Len(tp)
        /\ \A k \in 1..Len(f) :
              /\ f[k].item = k - 1
              /\ linkedin_jobs_to_fetch[k][1] = tp[k] - 1
              /\ f[k].job_id = IdentifierOf[jobs0[tp[k]]]
        /\ pc = "returned" => Len(f) = Len(tp)

\* three records, the first and the last targeted; the first fetch failed
\* and the second was still made, once
C1_Witness ==
    /\ pc = "returned"
    /\ Len(jobs0) = 3
    /\ TargetedPositions = << 1, 3 >>
    /\ LET f == Calls({ "fetch" })
       IN  /\ Len(f) = 2
           /\ f[1].result = None
           /\ f[1].job_id = << "2" >>
           /\ f[2].job_id = << "1" >>

\* C2: fetches and delays alternate, starting and ending with a fetch: with
\* n targeted records there are n - 1 delays (none when n = 0), one between
\* any two consecutive fetches, none before the first or after the last.
C2_DelayBetweenFetches ==
    LET fs == Calls({ "fetch", "sleep" })
        n == NumTargeted
    IN  /\ \A p \in 1..Len(fs) :
              fs[p].op = (IF p % 2 = 1 THEN "fetch" ELSE "sleep")
        /\ pc = "returned" =>
              /\ Len(Calls({ "fetch" })) = n
              /\ Len(Calls({ "sleep" })) = (IF n = 0 THEN 0 ELSE n - 1)
              /\ log # << >> => log[Len(log)].op = "fetch"

\* three targeted records, the first two fetches failed: two delays
C2_Witness ==
    /\ pc = "returned"
    /\ NumTargeted = 3
    /\ Len(Calls({ "sleep" })) = 2
    /\ LET f == Calls({ "fetch" })
       IN  f[1].result = None /\ f[2].result = None /\ f[3].result # None

\* C3: the list keeps its length and order; nothing but the description of a
\* targeted record whose fetch returned a result ever changes; when every
\* fetch returned no result the list is as it was.
C3_OnlyDescriptionsChange ==
    LET f == Calls({ "fetch" })
        tp == TargetedPositions
    IN  /\ Len(jobs) = Len(jobs0)
        /\ \A i \in 1..Len(jobs0) :
              /\ jobs[i].site = jobs0[i].site
              /\ jobs[i].link = jobs0[i].link
              /\ jobs[i].job_url = jobs0[i].job_url
              /\ jobs[i].description # jobs0[i].description =>
                    /\ TargetedRecord[jobs0[i]]
                    /\ \E k \in 1..Len(f) :
                          /\ tp[k] = i
                          /\ f[k].result # None
                          /\ jobs[i].description = f[k].result
        /\ (\A k \in 1..Len(f) : f[k].result = None) => jobs = jobs0

\* a record that is not targeted stands before a targeted one whose fetch
\* returned text: only the targeted record's description changed
C3_Witness ==
    /\ pc = "returned"
    /\ Len(jobs0) = 2
    /\ TargetedPositions = << 2 >>
    /\ jobs[1] = jobs0[1]
    /\ jobs0[2].description = None
    /\ jobs[2].description = << "a" >>

C7_ProgressBeforeEachFetch ==
    progress_callback =>
        LET pf == Calls({ "progress", "fetch" })
            n == NumTargeted
        IN  /\ pc # "raised"
            /\ \A p \in 1..Len(pf) :
                  IF p % 2 = 1
                  THEN /\ pf[p].op = "progress"
                       /\ pf[p].args = << (p + 1) \div 2, n >>
                  ELSE /\ pf[p].op = "fetch"
                       /\ pf[p].item = (p \div 2) - 1
            /\ pc = "returned" =>
                  /\ Len(Calls({ "progress" })) = n
                  /\ Len(Calls({ "fetch" })) = n

\* two targeted records, the first callback call raised: both fetches made
C7_Witness ==
    /\ pc = "returned"
    /\ progress_callback
    /\ NumTargeted = 2
    /\ LET pf == Calls({ "progress", "fetch" })
       IN  /\ Len(pf) = 4
           /\ pf[1].op = "progress" /\ pf[1].raised /\ pf[1].args = << 1, 2 >>
           /\ pf[2].op = "fetch"
           /\ pf[3].op = "progress" /\ pf[3].args = << 2, 2 >>
           /\ pf[4].op = "fetch"

NonEmptyText(d) == d # None /\ d # << >>

\* C10: a fetch that returned non-empty text overwrote the record's
\* description with it and counted as fetched; any other fetch (no result, or
\* an empty text) counted as failed and left the record as it was; no
\* description was ever overwritten with empty text, and fetched + failed
\* is the number of fetches made, the number of targeted records at the end.
C10_FetchedOrFailed ==
    LET f == Calls({ "fetch" })
        tp == TargetedPositions
    IN  /\ \A k \in 1..Len(f) :
              LET i == tp[k]
              IN  IF NonEmptyText(f[k].result)
                  THEN jobs[i].description = f[k].result
                  ELSE jobs[i] = jobs0[i]
        /\ fetched_count =
               Cardinality({ k \in 1..Len(f) : NonEmptyText(f[k].result) })
        /\ failed_count =
               Cardinality({ k \in 1..Len(f) : ~NonEmptyText(f[k].result) })
        /\ \A i \in 1..Len(jobs) :
              jobs[i].description # jobs0[i].description =>
                  jobs[i].description # << >>
        /\ pc = "returned" =>
              /\ fetched_count + failed_count = Len(tp)
              /\ (\A k \in 1..Len(f) : f[k].result = None) =>
                     failed_count = Len(tp)

\* a container that normalizes to the empty string counted as failed and
\* left the whitespace-only description in place; another fetch succeeded
C10_Witness ==
    /\ pc = "returned"
    /\ NumTargeted = 2
    /\ fetched_count = 1
    /\ failed_count = 1
    /\ LET f == Calls({ "fetch" })
       IN  /\ f[1].result = << >>
           /\ jobs[TargetedPositions[1]].description = << " ", "\n" >>
           /\ f[2].result = << "a" >>

====
